---- MODULE Spec2Model ----
(***************************************************************************)
(* Model of the resource provider controller (package resourceprovider):   *)
(* Start, the reconciliation loop goroutine it launches, solve,            *)
(* agreeToDeals and ensureResourceOffers, running against the solver       *)
(* facade (GetDeals, GetResourceOffers, AddResourceOffer), the ledger      *)
(* facade and the caller that holds the error channel.                     *)
(*                                                                         *)
(* Go slices are 0-based: catalogue position i is Specs[i + 1] here.       *)
(* The solver's store of this provider's active offers is a bag of offer   *)
(* records; CreatedAt (wall-clock milliseconds) is left out of the record  *)
(* because no decision of the controller reads it.                         *)
(***************************************************************************)
EXTENDS Bags, FiniteSets, Integers, Sequences, TLC

\* ---------------------------------------------------------------- bounds
MaxSpecs == 2
MaxIndex == 2
MaxDeals == 2

SpecSet == {"specA", "specB"}
DealIds == 1..MaxDeals
IndexSet == 0..MaxIndex

\* --------------------------------------------------------- configuration
SelfAddress == "0xSelf"
DealNegotiating == "DealNegotiating"

NoError == "nil"
ErrSolverStart == "solverClient.Start failed"
ErrWeb3Start == "web3Events.Start failed"
ErrGetDeals == "GetDeals failed"
ErrGetResourceOffers == "GetResourceOffers failed"
ErrAddResourceOffer == "AddResourceOffer failed"

VARIABLES
    options,              \* controller.options.Offers
    startPc,              \* position of Start
    startErr,             \* err inside Start
    subscribed,           \* callbacks registered by subscribeToSolver / subscribeToWeb3
    ctxDone,              \* ctx.Done() is closed
    callerReceiving,      \* the caller of Start is willing to receive from errorChan
    errorChan,            \* values delivered over errorChan, in order
    loopPc,               \* position of the goroutine launched by Start
    err,                  \* err of the goroutine (result of solve)
    negotiatingDeals,     \* agreeToDeals: result of GetDeals
    agreeTxs,             \* ledger: number of agree transactions per deal
    solverOffers,         \* solver: bag of this provider's active resource offers
    activeResourceOffers, \* ensureResourceOffers: result of GetResourceOffers
    addResourceOffers,    \* ensureResourceOffers: offers to add
    addPos,               \* ensureResourceOffers: elements of addResourceOffers ranged over
    addCalls,             \* AddResourceOffer calls issued in the current cycle, in order
    facadeCalls,          \* all solver facade calls of the current cycle, in order
    CallerSkipFrameCount, \* the global zerolog.CallerSkipFrameCount
    logPc,                \* per goroutine: position inside logWithCaller
    skipsRead,            \* values of CallerSkipFrameCount read by the emissions so far
    solverHandler,        \* the solver event callback: position and event
    web3Handler,          \* the deal-state-change callback: position
    timeoutsRet           \* the value returned by a call of getDefaultTimeouts

vars == << options, startPc, startErr, subscribed, ctxDone, callerReceiving,
           errorChan, loopPc, err, negotiatingDeals, agreeTxs, solverOffers,
           activeResourceOffers, addResourceOffers, addPos, addCalls,
           facadeCalls, CallerSkipFrameCount, logPc, skipsRead, solverHandler,
           web3Handler, timeoutsRet >>

\* ------------------------------------------------------------- helpers
SeqsUpTo(S, n) == UNION { [1..k -> S] : k \in 0..n }

\* lists without repetition, as the solver returns each deal once
DealLists == { q \in SeqsUpTo(DealIds, MaxDeals) :
                 \A i, j \in 1..Len(q) : i # j => q[i] # q[j] }

\* number of offers of bag b that carry index i
OffersAt(b, i) ==
    LET S == { o \in BagToSet(b) : o.Index = i }
    IN  BagCardinality([ o \in S |-> CopiesIn(o, b) ])

\* ---------------------------------------------------------- agreeToDeals
\* mutant: the query does not filter on the state
GetDealsQueryAnyState ==
    [ ResourceProvider |-> SelfAddress, State |-> "" ]

\* store.GetDealsQuery of agreeToDeals
GetDealsQuery ==
    [ ResourceProvider |-> SelfAddress, State |-> DealNegotiating ]

\* ------------------------------------------------- ensureResourceOffers
\* store.GetResourceOffersQuery of ensureResourceOffers
GetResourceOffersQuery ==
    [ ResourceProvider |-> SelfAddress, Active |-> TRUE ]

\* mutant: the trusted parties of the configuration are not copied
getResourceOfferNoTrustedParties(index, spec) ==
    [ ResourceProvider |-> SelfAddress,
      Index            |-> index,
      Spec             |-> spec,
      Modules          |-> options.Modules,
      Mode             |-> options.Mode,
      DefaultPricing   |-> options.DefaultPricing,
      DefaultTimeouts  |-> options.DefaultTimeouts,
      ModulePricing    |-> << >>,
      ModuleTimeouts   |-> << >>,
      TrustedParties   |-> << >> ]

getResourceOffer(index, spec) ==
    [ ResourceProvider |-> SelfAddress,
      Index            |-> index,
      Spec             |-> spec,
      Modules          |-> options.Modules,
      Mode             |-> options.Mode,
      DefaultPricing   |-> options.DefaultPricing,
      DefaultTimeouts  |-> options.DefaultTimeouts,
      ModulePricing    |-> << >>,
      ModuleTimeouts   |-> << >>,
      TrustedParties   |-> options.TrustedParties ]

\* mutant: the map is keyed one off the offer's Index
existingResourceOffersMapShifted(active) ==
    { o.Index + 1 : o \in BagToSet(active) }

\* the keys of existingResourceOffersMap built from the query result
existingResourceOffersMap(active) == { o.Index : o \in BagToSet(active) }

\* the range over options.Offers.Specs from position index on
RECURSIVE RangeSpecs(_, _, _)
RangeSpecs(specs, existing, index) ==
    IF index >= Len(specs) THEN << >>
    ELSE (IF index \notin existing
            THEN << getResourceOffer(index, specs[index + 1]) >>
            ELSE << >>)
         \o RangeSpecs(specs, existing, index + 1)

\* mutant: the range starts at position 1
AddResourceOffersFromOne(specs, active) ==
    RangeSpecs(specs, { o.Index : o \in BagToSet(active) }, 1)

\* mutant: the map of existing offers is not consulted
AddResourceOffersAll(specs, active) ==
    RangeSpecs(specs, {}, 0)

AddResourceOffers(specs, active) ==
    RangeSpecs(specs, existingResourceOffersMap(active), 0)

\* --------------------------------------------------------------- logging
\* SetupLogging and the deferred reset of logWithCaller
DefaultSkipFrameCount == 3
\* the skipFrameCount that Error, Info, Debug and Trace pass to logWithCaller
LogSkipFrameCount == 4

\* goroutines that log: the loop and the two callback dispatch paths
Threads == {"loop", "solverEvents", "web3Events"}

\* ----------------------------------------------------------- solver events
DealAdded == "DealAdded"
\* ev.Deal is a pointer: << >> is nil, << d >> points to the deal d
NilDeal == << >>
NoEvent == [ EventType |-> "", Deal |-> NilDeal ]
SolverEvents ==
    { [ EventType |-> t, Deal |-> d ] :
        t \in {DealAdded, "JobOfferAdded"},
        d \in {NilDeal, << [ ResourceProvider |-> SelfAddress ] >>,
                        << [ ResourceProvider |-> "0xOther" ] >>} }

AuxInit ==
    /\ CallerSkipFrameCount = DefaultSkipFrameCount
    /\ logPc = [ t \in Threads |-> "idle" ]
    /\ skipsRead = {}
    /\ solverHandler = [ pc |-> "idle", ev |-> NoEvent ]
    /\ web3Handler = "idle"
    /\ timeoutsRet = << >>

\* ------------------------------------------------------------------ Init
Init ==
    /\ \E specs \in SeqsUpTo(SpecSet, MaxSpecs) :
         options = [ Specs           |-> specs,
                     Modules         |-> "offers.modules",
                     Mode            |-> "offers.mode",
                     DefaultPricing  |-> "offers.defaultPricing",
                     DefaultTimeouts |-> "offers.defaultTimeouts",
                     TrustedParties  |-> "offers.trustedParties" ]
    /\ startPc = "subscribeToSolver"
    /\ startErr = NoError
    /\ subscribed = {}
    /\ ctxDone = FALSE
    /\ callerReceiving = TRUE
    /\ errorChan = << >>
    /\ loopPc = "notStarted"
    /\ err = NoError
    /\ negotiatingDeals = << >>
    /\ agreeTxs = [ d \in DealIds |-> 0 ]
    \* the solver starts with at most one active offer per index; an offer
    \* may sit at an index outside the catalogue or carry another spec
    /\ \E f \in [ IndexSet -> SpecSet \cup {"none"} ] :
         solverOffers = SetToBag({ getResourceOffer(i, f[i]) :
                                     i \in { j \in IndexSet : f[j] # "none" } })
    /\ activeResourceOffers = EmptyBag
    /\ addResourceOffers = << >>
    /\ addPos = 0
    /\ addCalls = << >>
    /\ facadeCalls = << >>
    /\ AuxInit

\* ----------------------------------------------------------------- Start
startVars == << startPc, startErr, subscribed >>
loopVars == << loopPc, err, negotiatingDeals, agreeTxs, activeResourceOffers,
               addResourceOffers, addPos, addCalls, facadeCalls, errorChan >>
envVars == << options, ctxDone, callerReceiving >>
\* logging, the event callbacks and the test fixtures: no step of Start, of
\* the loop or of the environment writes them
auxVars == << CallerSkipFrameCount, logPc, skipsRead, solverHandler,
              web3Handler, timeoutsRet >>

\* subscribeToSolver registers the callback and returns nil
subscribeToSolver ==
    /\ startPc = "subscribeToSolver"
    /\ subscribed' = subscribed \cup {"solver"}
    /\ startPc' = "subscribeToWeb3"
    /\ UNCHANGED << startErr, solverOffers, loopVars, envVars, auxVars >>

\* subscribeToWeb3 registers the callback and returns nil
subscribeToWeb3 ==
    /\ startPc = "subscribeToWeb3"
    /\ subscribed' = subscribed \cup {"web3"}
    /\ startPc' = "solverClient.Start"
    /\ UNCHANGED << startErr, solverOffers, loopVars, envVars, auxVars >>

\* err = solverClient.Start(ctx, cm); on an error Start executes
\* errorChan <- err on the unbuffered channel it has not returned yet
StartSolverClient ==
    /\ startPc = "solverClient.Start"
    /\ \E e \in {NoError, ErrSolverStart} :
         /\ startErr' = e
         /\ startPc' = IF e # NoError THEN "errorChan <- err" ELSE "web3Events.Start"
    /\ UNCHANGED << subscribed, solverOffers, loopVars, envVars, auxVars >>

\* err = web3Events.Start(sdk, ctx, cm); on success Start launches the loop
\* goroutine and returns errorChan
StartWeb3Events ==
    /\ startPc = "web3Events.Start"
    /\ \E e \in {NoError, ErrWeb3Start} :
         /\ startErr' = e
         /\ IF e # NoError
              THEN /\ startPc' = "errorChan <- err"
                   /\ loopPc' = loopPc
              ELSE /\ startPc' = "returned"
                   /\ loopPc' = "solve"
    /\ UNCHANGED << subscribed, solverOffers, err, negotiatingDeals, agreeTxs,
                    activeResourceOffers, addResourceOffers, addPos, addCalls, facadeCalls,
                    errorChan, envVars, auxVars >>

\* A send on errorChan completes only with a receiver, and only the caller
\* that Start has returned the channel to can receive from it.  Start at
\* "errorChan <- err" therefore has no step.
ReceiverReady == startPc = "returned" /\ callerReceiving

StartNext ==
    \/ subscribeToSolver
    \/ subscribeToWeb3
    \/ StartSolverClient
    \/ StartWeb3Events

\* ------------------------------------------------- the loop goroutine
\* top of the for loop: controller.solve() is called and a new cycle starts;
\* the locals of the previous cycle are gone
solve ==
    /\ loopPc = "solve"
    /\ loopPc' = "agreeToDeals"
    /\ negotiatingDeals' = << >>
    /\ activeResourceOffers' = EmptyBag
    /\ addResourceOffers' = << >>
    /\ addPos' = 0
    /\ addCalls' = << >>
    /\ facadeCalls' = << >>
    /\ UNCHANGED << err, agreeTxs, errorChan, solverOffers, startVars, envVars, auxVars >>

\* mutant: solve does not return on the error of agreeToDeals
agreeToDealsErrIgnored ==
    /\ loopPc = "agreeToDeals"
    /\ facadeCalls' = Append(facadeCalls, [ call |-> "GetDeals", arg |-> GetDealsQuery ])
    /\ \/ /\ err' = ErrGetDeals
          /\ loopPc' = "ensureResourceOffers"
          /\ UNCHANGED negotiatingDeals
       \/ \E deals \in DealLists :
            /\ negotiatingDeals' = deals
            /\ err' = NoError
            /\ loopPc' = IF Len(deals) <= 0 THEN "ensureResourceOffers"
                                             ELSE "range negotiatingDeals"
    /\ UNCHANGED << agreeTxs, activeResourceOffers, addResourceOffers, addPos,
                    addCalls, errorChan, solverOffers, startVars, envVars, auxVars >>

\* agreeToDeals up to the range loop: the GetDeals query, whose answer is the
\* solver's (an error, or the negotiating deals of this provider)
agreeToDeals ==
    /\ loopPc = "agreeToDeals"
    /\ facadeCalls' = Append(facadeCalls, [ call |-> "GetDeals", arg |-> GetDealsQuery ])
    /\ \/ /\ err' = ErrGetDeals
          /\ loopPc' = "errorChan <- err"
          /\ UNCHANGED negotiatingDeals
       \/ \E deals \in DealLists :
            /\ negotiatingDeals' = deals
            /\ err' = NoError
            /\ loopPc' = IF Len(deals) <= 0 THEN "ensureResourceOffers"
                                             ELSE "range negotiatingDeals"
    /\ UNCHANGED << agreeTxs, activeResourceOffers, addResourceOffers, addPos,
                    addCalls, errorChan, solverOffers, startVars, envVars, auxVars >>

\* the range over negotiatingDeals: each deal is logged, the Agree call is
\* commented out, and agreeToDeals returns err (nil)
agreeRange ==
    /\ loopPc = "range negotiatingDeals"
    /\ agreeTxs' = agreeTxs
    /\ negotiatingDeals' = << >>
    /\ loopPc' = "ensureResourceOffers"
    /\ UNCHANGED << err, activeResourceOffers, addResourceOffers, addPos,
                    addCalls, facadeCalls, errorChan, solverOffers, startVars, envVars, auxVars >>

\* mutant: active offers whose Index is outside the catalogue are retired
ensureResourceOffersPruning ==
    /\ loopPc = "ensureResourceOffers"
    /\ facadeCalls' = Append(facadeCalls, [ call |-> "GetResourceOffers",
                                            arg  |-> GetResourceOffersQuery ])
    /\ \/ /\ err' = ErrGetResourceOffers
          /\ loopPc' = "errorChan <- err"
          /\ UNCHANGED << activeResourceOffers, addResourceOffers, solverOffers >>
       \/ /\ activeResourceOffers' = solverOffers
          /\ addResourceOffers' = RangeSpecs(options.Specs,
                                    { o.Index : o \in BagToSet(solverOffers) }, 0)
          /\ solverOffers' = LET keep == { o \in BagToSet(solverOffers) :
                                             o.Index < Len(options.Specs) }
                             IN  [ o \in keep |-> CopiesIn(o, solverOffers) ]
          /\ err' = NoError
          /\ loopPc' = IF addResourceOffers' = << >> THEN "select" ELSE "AddResourceOffer"
    /\ UNCHANGED << negotiatingDeals, agreeTxs, addPos, addCalls, errorChan,
                    startVars, envVars, auxVars >>

\* mutant: the error of GetResourceOffers is not checked and the run goes on
\* with the empty list the failed query returned
ensureResourceOffersUnchecked ==
    /\ loopPc = "ensureResourceOffers"
    /\ facadeCalls' = Append(facadeCalls, [ call |-> "GetResourceOffers",
                                            arg  |-> GetResourceOffersQuery ])
    /\ \E failed \in BOOLEAN :
         LET active == IF failed THEN EmptyBag ELSE solverOffers IN
         /\ activeResourceOffers' = active
         /\ addResourceOffers' = RangeSpecs(options.Specs,
                                   { o.Index : o \in BagToSet(active) }, 0)
         /\ err' = IF failed THEN ErrGetResourceOffers ELSE NoError
         /\ loopPc' = IF addResourceOffers' = << >>
                        THEN (IF failed THEN "errorChan <- err" ELSE "select")
                        ELSE "AddResourceOffer"
    /\ UNCHANGED << negotiatingDeals, agreeTxs, addPos, addCalls, errorChan,
                    solverOffers, startVars, envVars, auxVars >>

\* ensureResourceOffers up to the add loop: the GetResourceOffers query, the
\* map of existing offers and the list of offers to add
ensureResourceOffers ==
    /\ loopPc = "ensureResourceOffers"
    /\ facadeCalls' = Append(facadeCalls, [ call |-> "GetResourceOffers",
                                            arg  |-> GetResourceOffersQuery ])
    /\ \/ /\ err' = ErrGetResourceOffers
          /\ loopPc' = "errorChan <- err"
          /\ UNCHANGED << activeResourceOffers, addResourceOffers >>
       \/ /\ activeResourceOffers' = solverOffers
          /\ addResourceOffers' = AddResourceOffers(options.Specs, solverOffers)
          /\ err' = NoError
          /\ loopPc' = IF AddResourceOffers(options.Specs, solverOffers) = << >>
                         THEN "select" ELSE "AddResourceOffer"
    /\ UNCHANGED << negotiatingDeals, agreeTxs, addPos, addCalls, errorChan,
                    solverOffers, startVars, envVars, auxVars >>

\* mutant: a failed AddResourceOffer does not end the range, the error is
\* returned after the last offer
AddResourceOfferContinue ==
    /\ loopPc = "AddResourceOffer"
    /\ LET resourceOffer == addResourceOffers[addPos + 1] IN
       \E outcome \in {"accepted", "rejected", "lost"} :
         /\ addCalls' = Append(addCalls, resourceOffer)
         /\ facadeCalls' = Append(facadeCalls, [ call |-> "AddResourceOffer",
                                                 arg  |-> resourceOffer ])
         /\ solverOffers' = IF outcome = "rejected" THEN solverOffers
                            ELSE solverOffers (+) SetToBag({resourceOffer})
         /\ addPos' = addPos + 1
         /\ err' = IF outcome = "accepted" THEN err ELSE ErrAddResourceOffer
         /\ loopPc' = IF addPos + 1 < Len(addResourceOffers) THEN "AddResourceOffer"
                      ELSE IF err' = NoError THEN "select" ELSE "errorChan <- err"
    /\ UNCHANGED << negotiatingDeals, agreeTxs, activeResourceOffers,
                    addResourceOffers, errorChan, startVars, envVars, auxVars >>

\* one iteration of the range over addResourceOffers: the AddResourceOffer
\* call.  The solver accepts it and answers, rejects it, or accepts it and
\* the answer is lost (the call fails although the offer is stored).
AddResourceOffer ==
    /\ loopPc = "AddResourceOffer"
    /\ LET resourceOffer == addResourceOffers[addPos + 1] IN
       \E outcome \in {"accepted", "rejected", "lost"} :
         /\ addCalls' = Append(addCalls, resourceOffer)
         /\ facadeCalls' = Append(facadeCalls, [ call |-> "AddResourceOffer",
                                                 arg  |-> resourceOffer ])
         /\ solverOffers' = IF outcome = "rejected" THEN solverOffers
                            ELSE solverOffers (+) SetToBag({resourceOffer})
         /\ addPos' = addPos + 1
         /\ IF outcome = "accepted"
              THEN /\ err' = NoError
                   /\ loopPc' = IF addPos + 1 >= Len(addResourceOffers)
                                  THEN "select" ELSE "AddResourceOffer"
              ELSE /\ err' = ErrAddResourceOffer
                   /\ loopPc' = "errorChan <- err"
    /\ UNCHANGED << negotiatingDeals, agreeTxs, activeResourceOffers,
                    addResourceOffers, errorChan, startVars, envVars, auxVars >>

\* mutant: the return after the send is missing and the loop goes on
SendErrorNoReturn ==
    /\ loopPc = "errorChan <- err"
    /\ ReceiverReady
    /\ errorChan' = Append(errorChan, err)
    /\ loopPc' = "select"
    /\ UNCHANGED << err, negotiatingDeals, agreeTxs, activeResourceOffers,
                    addResourceOffers, addPos, addCalls, facadeCalls, solverOffers,
                    startVars, envVars, auxVars >>

\* solve returned an error: errorChan <- err, then return
SendError ==
    /\ loopPc = "errorChan <- err"
    /\ ReceiverReady
    /\ errorChan' = Append(errorChan, err)
    /\ loopPc' = "exited"
    /\ UNCHANGED << err, negotiatingDeals, agreeTxs, activeResourceOffers,
                    addResourceOffers, addPos, addCalls, facadeCalls, solverOffers,
                    startVars, envVars, auxVars >>

\* mutant: the for loop is missing and the goroutine ends after one cycle
SelectTimeAfterOnce ==
    /\ loopPc = "select"
    /\ loopPc' = "exited"
    /\ UNCHANGED << err, negotiatingDeals, agreeTxs, activeResourceOffers,
                    addResourceOffers, addPos, addCalls, facadeCalls, errorChan,
                    solverOffers, startVars, envVars, auxVars >>

\* select: case <-time.After(1 * time.Second)
SelectTimeAfter ==
    /\ loopPc = "select"
    /\ loopPc' = "solve"
    /\ UNCHANGED << err, negotiatingDeals, agreeTxs, activeResourceOffers,
                    addResourceOffers, addPos, addCalls, facadeCalls, errorChan,
                    solverOffers, startVars, envVars, auxVars >>

\* select: case <-ctx.Done(): return
SelectCtxDone ==
    /\ loopPc = "select"
    /\ ctxDone
    /\ loopPc' = "exited"
    /\ UNCHANGED << err, negotiatingDeals, agreeTxs, activeResourceOffers,
                    addResourceOffers, addPos, addCalls, facadeCalls, errorChan,
                    solverOffers, startVars, envVars, auxVars >>

LoopNext ==
    \/ solve
    \/ agreeToDeals
    \/ agreeRange
    \/ ensureResourceOffers
    \/ AddResourceOffer
    \/ SendError
    \/ SelectTimeAfter
    \/ SelectCtxDone

\* --------------------------------------------------------- environment
\* the cancellation signal is raised
Cancel ==
    /\ ~ctxDone
    /\ ctxDone' = TRUE
    /\ UNCHANGED << options, callerReceiving, solverOffers, startVars, loopVars, auxVars >>

\* after cancellation the caller may stop receiving from errorChan
CallerStops ==
    /\ ctxDone
    /\ callerReceiving
    /\ callerReceiving' = FALSE
    /\ UNCHANGED << options, ctxDone, solverOffers, startVars, loopVars, auxVars >>

\* an active offer is retired outside the controller
RetireOffer ==
    /\ \E o \in BagToSet(solverOffers) :
         solverOffers' = solverOffers (-) SetToBag({o})
    /\ UNCHANGED << startVars, loopVars, envVars, auxVars >>

EnvNext ==
    \/ Cancel
    \/ CallerStops
    \/ RetireOffer

Next ==
    \/ StartNext
    \/ LoopNext
    \/ EnvNext

Spec == Init /\ [][Next]_vars

\* The goroutines are scheduled: Start and the loop take their next step when
\* they have one.  A select with several ready cases picks one at random, so
\* a loop that comes back to the select with ctx.Done() ready again and again
\* takes that case at some point.
FairSpec ==
    /\ Init
    /\ [][Next]_vars
    /\ WF_vars(StartNext)
    /\ WF_vars(LoopNext)
    /\ SF_vars(SelectCtxDone)

\* ---------------------------------------------------------- logWithCaller
ctrlVars == << solverOffers, startVars, loopVars, envVars >>

\* zerolog.CallerSkipFrameCount = skipFrameCount
LogSet(t) ==
    /\ logPc[t] = "logWithCaller"
    /\ CallerSkipFrameCount' = LogSkipFrameCount
    /\ logPc' = [ logPc EXCEPT ![t] = "e.Caller" ]
    /\ UNCHANGED << skipsRead, solverHandler, web3Handler, timeoutsRet, ctrlVars >>

\* e.Caller().Msg(""): the emission reads the global
LogEmit(t) ==
    /\ logPc[t] = "e.Caller"
    /\ skipsRead' = skipsRead \cup {CallerSkipFrameCount}
    /\ logPc' = [ logPc EXCEPT ![t] = "defer" ]
    /\ UNCHANGED << CallerSkipFrameCount, solverHandler, web3Handler,
                    timeoutsRet, ctrlVars >>

\* the deferred zerolog.CallerSkipFrameCount = 3, and logWithCaller returns
LogReset(t) ==
    /\ logPc[t] = "defer"
    /\ CallerSkipFrameCount' = DefaultSkipFrameCount
    /\ logPc' = [ logPc EXCEPT ![t] = "idle" ]
    /\ UNCHANGED << skipsRead, solverHandler, web3Handler, timeoutsRet, ctrlVars >>

\* positions of the loop goroutine with a call of system.Debug, system.Info
\* or system.Error: "solving", "agree to deal", "add resource offer" and
\* "error solving"
LoopLogPositions ==
    {"solve", "range negotiatingDeals", "AddResourceOffer", "errorChan <- err"}

\* the loop goroutine enters a logging call of its position
LoopLog ==
    /\ loopPc \in LoopLogPositions
    /\ logPc["loop"] = "idle"
    /\ logPc' = [ logPc EXCEPT !["loop"] = "logWithCaller" ]
    /\ UNCHANGED << CallerSkipFrameCount, skipsRead, solverHandler, web3Handler,
                    timeoutsRet, ctrlVars >>

\* a step of the loop goroutine outside logWithCaller
LoopRun ==
    /\ logPc["loop"] = "idle"
    /\ LoopNext

LogNext ==
    \/ \E t \in Threads : LogSet(t)
    \/ \E t \in Threads : LogEmit(t)
    \/ \E t \in Threads : LogReset(t)
    \/ LoopLog

\* ------------------------------------------------------ event callbacks
\* the solver client, once started, dispatches events to the callback
SolverClientStarted ==
    \/ startPc \in {"web3Events.Start", "returned"}
    \/ startPc = "errorChan <- err" /\ startErr = ErrWeb3Start

\* the callback of subscribeToSolver is called with an event
SolverEventReceived ==
    /\ solverHandler.pc = "idle"
    /\ "solver" \in subscribed
    /\ SolverClientStarted
    /\ \E ev \in SolverEvents :
         solverHandler' = [ pc |-> "ServiceLogSolverEvent", ev |-> ev ]
    /\ UNCHANGED << CallerSkipFrameCount, logPc, skipsRead, web3Handler,
                    timeoutsRet, ctrlVars >>

\* solver.ServiceLogSolverEvent logs the event
ServiceLogSolverEvent ==
    /\ solverHandler.pc = "ServiceLogSolverEvent"
    /\ solverHandler' = [ solverHandler EXCEPT !.pc = "if DealAdded" ]
    /\ UNCHANGED << CallerSkipFrameCount, logPc, skipsRead, web3Handler,
                    timeoutsRet, ctrlVars >>

\* mutant: ev.Deal is read without the nil check
SolverEventCheckNoNilCheck ==
    /\ solverHandler.pc = "if DealAdded"
    /\ solverHandler' =
         IF solverHandler.ev.EventType = DealAdded /\ solverHandler.ev.Deal = NilDeal
           THEN [ solverHandler EXCEPT !.pc = "panic" ]
           ELSE [ pc |-> "idle", ev |-> NoEvent ]
    /\ UNCHANGED << CallerSkipFrameCount, logPc, skipsRead, web3Handler,
                    timeoutsRet, ctrlVars >>

\* if ev.EventType == solver.DealAdded: a nil Deal is reported with
\* system.Error; a deal of another provider, a deal of this provider and any
\* other event return at once
SolverEventCheck ==
    /\ solverHandler.pc = "if DealAdded"
    /\ IF solverHandler.ev.EventType = DealAdded /\ solverHandler.ev.Deal = NilDeal
         THEN /\ solverHandler' = [ solverHandler EXCEPT !.pc = "system.Error" ]
              /\ logPc' = [ logPc EXCEPT !["solverEvents"] = "logWithCaller" ]
         ELSE /\ solverHandler' =
                   IF /\ solverHandler.ev.EventType = DealAdded
                      /\ solverHandler.ev.Deal[1].ResourceProvider # SelfAddress
                     THEN [ pc |-> "idle", ev |-> NoEvent ]
                     ELSE [ pc |-> "idle", ev |-> NoEvent ]
              /\ UNCHANGED logPc
    /\ UNCHANGED << CallerSkipFrameCount, skipsRead, web3Handler, timeoutsRet,
                    ctrlVars >>

\* system.Error has returned: return
SolverEventReturn ==
    /\ solverHandler.pc = "system.Error"
    /\ logPc["solverEvents"] = "idle"
    /\ solverHandler' = [ pc |-> "idle", ev |-> NoEvent ]
    /\ UNCHANGED << CallerSkipFrameCount, logPc, skipsRead, web3Handler,
                    timeoutsRet, ctrlVars >>

\* the callback of subscribeToWeb3 is called: system.Info
Web3EventReceived ==
    /\ web3Handler = "idle"
    /\ "web3" \in subscribed
    /\ startPc = "returned"
    /\ web3Handler' = "system.Info"
    /\ logPc' = [ logPc EXCEPT !["web3Events"] = "logWithCaller" ]
    /\ UNCHANGED << CallerSkipFrameCount, skipsRead, solverHandler, timeoutsRet,
                    ctrlVars >>

\* system.Info has returned, and so does the callback
Web3EventReturn ==
    /\ web3Handler = "system.Info"
    /\ logPc["web3Events"] = "idle"
    /\ web3Handler' = "idle"
    /\ UNCHANGED << CallerSkipFrameCount, logPc, skipsRead, solverHandler,
                    timeoutsRet, ctrlVars >>

HandlerNext ==
    \/ SolverEventReceived
    \/ ServiceLogSolverEvent
    \/ SolverEventCheck
    \/ SolverEventReturn
    \/ Web3EventReceived
    \/ Web3EventReturn

\* -------------------------------------------------------- test fixtures
DEFAUT_TIMEOUT_TIME == 60 * 60
DEFAUT_TIMEOUT_COLLATERAL == 1

\* ethers.getBigInt of a number: the integer itself
getBigInt(v) == IF v \in Int THEN v ELSE "invalid BigNumberish value"

\* mutant: every phase carries the collateral
getDefaultTimeoutsAllCost ==
    LET defaultTimeout ==
            [ timeout    |-> getBigInt(DEFAUT_TIMEOUT_TIME),
              collateral |-> getBigInt(DEFAUT_TIMEOUT_COLLATERAL) ]
    IN  [ agree          |-> defaultTimeout,
          submitResults  |-> defaultTimeout,
          judgeResults   |-> defaultTimeout,
          mediateResults |-> defaultTimeout ]

getDefaultTimeouts ==
    LET defaultTimeout ==
            [ timeout    |-> getBigInt(DEFAUT_TIMEOUT_TIME),
              collateral |-> getBigInt(DEFAUT_TIMEOUT_COLLATERAL) ]
        defaultTimeoutNoCost ==
            [ timeout    |-> getBigInt(DEFAUT_TIMEOUT_TIME),
              collateral |-> getBigInt(0) ]
    IN  [ agree          |-> defaultTimeoutNoCost,
          submitResults  |-> defaultTimeout,
          judgeResults   |-> defaultTimeout,
          mediateResults |-> defaultTimeoutNoCost ]

\* a fixture calls getDefaultTimeouts
CallGetDefaultTimeouts ==
    /\ timeoutsRet = << >>
    /\ timeoutsRet' = << getDefaultTimeouts >>
    /\ UNCHANGED << CallerSkipFrameCount, logPc, skipsRead, solverHandler,
                    web3Handler, ctrlVars >>

\* ------------------------------------------- the controller with events
\* one provider configuration: a catalogue of one machine, no offer yet
SystemInit ==
    /\ Init
    /\ options.Specs = << "specA" >>
    /\ solverOffers = EmptyBag

SystemNext ==
    \/ StartNext
    \/ LoopRun
    \/ EnvNext
    \/ LogNext
    \/ HandlerNext
    \/ CallGetDefaultTimeouts

SystemSpec == SystemInit /\ [][SystemNext]_vars

\* ======================================================== properties
\* indices covered by the active-offers snapshot of the current cycle
Covered == { o.Index : o \in BagToSet(activeResourceOffers) }
\* catalogue positions
Positions == 0 .. (Len(options.Specs) - 1)
Missing == Positions \ Covered
CallsAt(i) == { k \in 1..Len(addCalls) : addCalls[k].Index = i }
\* ensureResourceOffers has returned nil in the current cycle
EnsureSucceeded == loopPc \in {"select", "exited"} /\ err = NoError
\* the GetResourceOffers query of the current cycle has succeeded
QuerySucceeded ==
    \/ loopPc \in {"AddResourceOffer", "select"}
    \/ loopPc \in {"errorChan <- err", "exited"} /\ err \in {NoError, ErrAddResourceOffer}
LoopStopped == loopPc \in {"errorChan <- err", "exited"}
NothingAdded == \A o \in BagToSet(solverOffers') :
                    CopiesIn(o, solverOffers') <= CopiesIn(o, solverOffers)
NothingRemoved == \A o \in BagToSet(solverOffers) :
                    CopiesIn(o, solverOffers') >= CopiesIn(o, solverOffers)

\* C1: a run of ensureResourceOffers whose query and add calls all succeed
\* issues exactly one AddResourceOffer call per catalogue position that is
\* not the Index of an offer of the snapshot, with that Index and the
\* catalogue entry as Spec, in ascending catalogue order.
C1_OneAddPerMissingIndex ==
    EnsureSucceeded =>
        /\ \A i \in Missing : Cardinality(CallsAt(i)) = 1
        /\ \A k \in 1..Len(addCalls) :
             /\ addCalls[k].Index \in Missing
             /\ addCalls[k].Spec = options.Specs[addCalls[k].Index + 1]
        /\ \A k, l \in 1..Len(addCalls) :
             k < l => addCalls[k].Index < addCalls[l].Index

C1_Witness ==
    /\ EnsureSucceeded
    /\ Len(addCalls) = 2
    /\ activeResourceOffers # EmptyBag
    /\ options.Specs[1] # options.Specs[2]

\* C2: no AddResourceOffer call carries an Index of the cycle's snapshot, and
\* a run that finds every catalogue position covered issues no call and
\* returns nil.
C2_NoAddForCoveredIndex ==
    /\ \A k \in 1..Len(addCalls) : addCalls[k].Index \notin Covered
    /\ (QuerySucceeded /\ Positions \subseteq Covered) =>
           /\ addCalls = << >>
           /\ loopPc \in {"select", "exited"}
           /\ err = NoError

C2_Witness ==
    /\ loopPc = "select"
    /\ Len(options.Specs) = 2
    /\ Positions \subseteq Covered
    /\ \E o \in BagToSet(activeResourceOffers) :
         o.Index = 0 /\ o.Spec # options.Specs[1]

\* C3: the solver never holds two active offers of this provider with the
\* same Index.
C3_AtMostOneOfferPerIndex ==
    \A o \in BagToSet(solverOffers) : OffersAt(solverOffers, o.Index) <= 1

C3_Witness ==
    /\ err = ErrAddResourceOffer
    /\ Len(addCalls) = 2
    /\ \A i \in Positions : OffersAt(solverOffers, i) = 1
    /\ Covered # {}

\* C4: every negotiating deal of this provider that GetDeals returned has
\* exactly one agree transaction on the ledger when agreeToDeals has ranged
\* over the deals, in the first cycle and in every later one.
C4_AgreeExactlyOnce ==
    [][ (loopPc = "range negotiatingDeals" /\ loopPc' # loopPc) =>
            \A k \in 1..Len(negotiatingDeals) :
                agreeTxs'[negotiatingDeals[k]] = 1 ]_vars

C6_NoErrorAfterCancel ==
    [][ ctxDone => errorChan' = errorChan ]_vars

\* C7: no call of solve starts after the cancellation signal.
C7_NoCycleAfterCancel ==
    [][ ctxDone => ~(loopPc = "solve" /\ loopPc' = "agreeToDeals") ]_vars

\* C8: after a failed setup step Start is not stuck (it has returned or can
\* take a step) and the loop has not been started.
C8_SetupFailureReturns ==
    startErr # NoError =>
        /\ startPc = "returned" \/ ENABLED StartNext
        /\ loopPc = "notStarted"

\* C9: a failed GetResourceOffers query ends the run with that error, with no
\* AddResourceOffer call, and the failing step leaves the solver's offers as
\* they were.
C9_QueryFailureAddsNothing ==
    /\ [] (err = ErrGetResourceOffers =>
             /\ LoopStopped
             /\ addCalls = << >>
             /\ addResourceOffers = << >>)
    /\ [][ (loopPc = "ensureResourceOffers" /\ LoopStopped') =>
             /\ err' = ErrGetResourceOffers
             /\ solverOffers' = solverOffers ]_vars

C9_Witness ==
    /\ err = ErrGetResourceOffers
    /\ loopPc = "exited"
    /\ Positions \ { o.Index : o \in BagToSet(solverOffers) } # {}

\* C10: when the k-th AddResourceOffer call of a cycle fails the run ends
\* with that error, the calls of the cycle are the first k offers of the list
\* and no later one, and the failing step removes nothing from the solver.
C10_AddFailureAbortsWithoutRollback ==
    /\ [] (err = ErrAddResourceOffer =>
             /\ LoopStopped
             /\ addPos >= 1
             /\ addCalls = SubSeq(addResourceOffers, 1, addPos))
    /\ [][ (loopPc = "AddResourceOffer" /\ LoopStopped') =>
             /\ err' = ErrAddResourceOffer
             /\ addCalls' = Append(addCalls, addResourceOffers[addPos + 1])
             /\ NothingRemoved ]_vars
    /\ [][ err = ErrAddResourceOffer => addCalls' = addCalls ]_vars

C10_Witness ==
    /\ err = ErrAddResourceOffer
    /\ Len(addCalls) = 2
    /\ BagIn(addCalls[1], solverOffers)
    /\ ~BagIn(addCalls[2], solverOffers)

\* calls of the current cycle with the given name
CallsNamed(name) == SelectSeq(facadeCalls, LAMBDA c : c.call = name)
\* the loop has made a step
LoopStep == loopPc' # loopPc \/ addPos' # addPos

\* C11: agreeToDeals issues one GetDeals query, for this provider and state
\* DealNegotiating; a failed query is returned without a deal being ranged
\* over, and an empty answer returns nil with no further call.
C11_OneGetDealsQuery ==
    /\ [] /\ Len(CallsNamed("GetDeals")) <= 1
          /\ loopPc = "range negotiatingDeals" =>
                 (negotiatingDeals # << >> /\ err = NoError)
    /\ [][ (loopPc = "agreeToDeals" /\ LoopStep) =>
             /\ facadeCalls' = << [ call |-> "GetDeals",
                                    arg  |-> [ ResourceProvider |-> "0xSelf",
                                               State |-> "DealNegotiating" ] ] >>
             /\ err' # NoError =>
                    /\ err' = ErrGetDeals
                    /\ loopPc' = "errorChan <- err"
                    /\ negotiatingDeals' = << >>
             /\ (err' = NoError /\ negotiatingDeals' = << >>) =>
                    loopPc' = "ensureResourceOffers" ]_vars
    /\ [][ loopPc = "range negotiatingDeals" => facadeCalls' = facadeCalls ]_vars

C11_Witness ==
    /\ loopPc = "errorChan <- err"
    /\ err = ErrGetDeals
    /\ Len(facadeCalls) = 1

\* C13: in a cycle GetDeals is the first facade call and GetResourceOffers
\* can only be the second; ensureResourceOffers is reached only from
\* agreeToDeals and only with a nil error; a cycle starts only from the
\* elapsed sleep of the previous one (or at the launch of the goroutine).
C13_CycleOrder ==
    /\ [] /\ \A k \in 1..Len(facadeCalls) :
               /\ (facadeCalls[k].call = "GetDeals") <=> (k = 1)
               /\ (facadeCalls[k].call = "GetResourceOffers") <=> (k = 2)
          /\ loopPc \in {"ensureResourceOffers", "AddResourceOffer", "select"} =>
                 err = NoError
          /\ err = ErrGetDeals => Len(facadeCalls) = 1
    /\ [][ /\ (loopPc' = "solve" /\ LoopStep) => loopPc \in {"select", "notStarted"}
           /\ (loopPc' = "agreeToDeals" /\ LoopStep) => loopPc = "solve"
           /\ (loopPc' = "ensureResourceOffers" /\ LoopStep) =>
                  /\ loopPc \in {"agreeToDeals", "range negotiatingDeals"}
                  /\ err' = NoError
           /\ loopPc # "notStarted" => loopPc' # "notStarted" ]_vars

C13_Witness ==
    /\ loopPc = "solve"
    /\ Len(facadeCalls) = 4
    /\ err = NoError

C16_OfferFields ==
    \A k \in 1..Len(addCalls) :
        /\ addCalls[k].ResourceProvider = "0xSelf"
        /\ addCalls[k].Modules = options.Modules
        /\ addCalls[k].Mode = options.Mode
        /\ addCalls[k].DefaultPricing = options.DefaultPricing
        /\ addCalls[k].DefaultTimeouts = options.DefaultTimeouts
        /\ addCalls[k].TrustedParties = options.TrustedParties
        /\ addCalls[k].ModulePricing = << >>
        /\ addCalls[k].ModuleTimeouts = << >>

C16_Witness ==
    /\ Len(addCalls) = 2
    /\ addCalls[1].Index = 0
    /\ addCalls[2].Index = 1
    /\ loopPc = "AddResourceOffer" \/ LoopStopped \/ loopPc = "select"

\* C17: in a behaviour without a failed call and without cancellation, a
\* catalogue position that has no active offer (at the start, or because
\* its offer was retired) gets one.
C17_Convergence ==
    ([]~ctxDone /\ [](err = NoError /\ startErr = NoError)) =>
        \A i \in 0..(MaxSpecs - 1) :
            (i \in Positions /\ OffersAt(solverOffers, i) = 0)
                ~> (OffersAt(solverOffers, i) >= 1)

C17_Witness ==
    /\ ~ctxDone
    /\ loopPc = "select"
    /\ Len(options.Specs) = 2
    /\ Len(addCalls) = 1
    /\ activeResourceOffers # EmptyBag
    /\ \A i \in Positions : OffersAt(solverOffers, i) = 1

\* C18: once the cancellation signal is raised a launched loop goroutine
\* terminates.
C18_LoopTerminates ==
    (ctxDone /\ loopPc # "notStarted") ~> (loopPc = "exited")

\* a step of the solver event callback, its logging call included
SolverHandlerStep ==
    \/ solverHandler' # solverHandler
    \/ logPc'["solverEvents"] # logPc["solverEvents"]

\* C12: on a deal-added event without a Deal the solver event callback makes
\* the system.Error call and then returns; it never ends in a panic, and no
\* step of it touches the loop, the error channel, Start or the solver.
C12_NilDealLoggedNotFatal ==
    /\ [] (solverHandler.pc \in {"idle", "ServiceLogSolverEvent", "if DealAdded",
                                 "system.Error"})
    /\ [][ ( /\ solverHandler.pc = "if DealAdded"
             /\ solverHandler.ev.EventType = "DealAdded"
             /\ solverHandler.ev.Deal = << >>
             /\ solverHandler' # solverHandler ) =>
               /\ solverHandler'.pc = "system.Error"
               /\ logPc'["solverEvents"] = "logWithCaller" ]_vars
    /\ [][ (solverHandler.pc = "system.Error" /\ solverHandler' # solverHandler) =>
               /\ solverHandler'.pc = "idle"
               /\ skipsRead # {} ]_vars
    /\ [][ SolverHandlerStep => UNCHANGED ctrlVars ]_vars

C12_Witness ==
    /\ solverHandler.pc = "system.Error"
    /\ logPc["solverEvents"] = "idle"
    /\ loopPc = "AddResourceOffer"
    /\ errorChan = << >>

\* C19: every emission reads CallerSkipFrameCount as 4, and the global is 3
\* whenever no goroutine is inside a logging call.
C19_SkipFrameCountFour ==
    /\ skipsRead \subseteq {4}
    /\ (\A t \in Threads : logPc[t] = "idle") => CallerSkipFrameCount = 3

\* C20: in the value getDefaultTimeouts returns, agree and mediateResults have
\* collateral 0, submitResults and judgeResults have the positive collateral
\* DEFAUT_TIMEOUT_COLLATERAL, and all four phases have the positive timeout
\* DEFAUT_TIMEOUT_TIME.
C20_DefaultTimeouts ==
    \A k \in 1..Len(timeoutsRet) :
        LET ret == timeoutsRet[k] IN
        /\ ret.agree.collateral = 0
        /\ ret.mediateResults.collateral = 0
        /\ ret.submitResults.collateral = DEFAUT_TIMEOUT_COLLATERAL
        /\ ret.judgeResults.collateral = DEFAUT_TIMEOUT_COLLATERAL
        /\ DEFAUT_TIMEOUT_COLLATERAL > 0
        /\ \A phase \in {"agree", "submitResults", "judgeResults", "mediateResults"} :
             ret[phase].timeout = DEFAUT_TIMEOUT_TIME
        /\ DEFAUT_TIMEOUT_TIME > 0

C20_Witness ==
    /\ timeoutsRet # << >>
    /\ timeoutsRet[1].submitResults.collateral = 1
    /\ timeoutsRet[1].agree.timeout = 3600

====
